---- MODULE Spec2Model ----
(***************************************************************************)
(* A model of the tar reader of untar_stripped.py (class TarParser).       *)
(*                                                                         *)
(* The archive is modelled at the level of bytes: a file is a sequence of  *)
(* numbers 0..255, a header block is 512 of them with the fields at the    *)
(* offsets the code reads, numeric fields are NUL-padded octal text.       *)
(* A Python str is modelled as the sequence of its code points, so that    *)
(* bytes.decode() of ASCII text yields an equal sequence.                  *)
(* A Python exception is modelled by the record Raise(class name).         *)
(***************************************************************************)
EXTENDS Integers, Sequences, FiniteSets, TLC

(***************************************************************************)
(* Bounds of the model.                                                    *)
(***************************************************************************)
\* the longest archive made of entries alone, counted in entries
MaxItems == 2

\* the longest archive made of zero blocks and plain entries, counted in
\* zero blocks and entries
MaxZeroItems == 3

(***************************************************************************)
(* Python values.                                                          *)
(***************************************************************************)
\* None, a returned value, a raised exception: records, told apart by field
None == [none |-> TRUE]

Ok(v) == [val |-> v]

Raise(cls) == [exc |-> cls]

IsRaise(r) == "exc" \in DOMAIN r

IsOk(r) == "val" \in DOMAIN r

\* the next step F on the value of r, unless r is an exception, which
\* then is the outcome
Then(r, F(_)) == IF IsRaise(r) THEN r ELSE F(r.val)

Min(a, b) == IF a <= b THEN a ELSE b

Max(a, b) == IF a >= b THEN a ELSE b

\* bytes(n): n zero bytes
bytes(n) == [i \in 1..n |-> 0]

\* b[lo:hi] for 0 <= lo <= hi
Slice(b, lo, hi) == SubSeq(b, Min(lo, Len(b)) + 1, Min(hi, Len(b)))

\* the least number of a non-empty set of numbers
Least(S) == CHOOSE i \in S : \A j \in S : i <= j

\* b.strip(chars): drop the bytes of chars from both ends
strip(b, chars) ==
    LET keep == {i \in 1..Len(b) : b[i] \notin chars}
    IN  IF keep = {} THEN <<>>
        ELSE SubSeq(b, Least(keep), -Least({-i : i \in keep}))

\* b.startswith(p)
startswith(b, p) == Len(b) >= Len(p) /\ SubSeq(b, 1, Len(p)) = p

\* bytes.decode(): UTF-8.  A sequence of bytes below 128 decodes to the
\* same code points; a byte 255 occurs in no UTF-8 text.  The archives of
\* the model hold no other bytes above 127.
decode(b) ==
    IF \E i \in 1..Len(b) : b[i] > 127 THEN Raise("UnicodeDecodeError")
    ELSE Ok(b)

\* ceil(a / b) of math.ceil over true division, b > 0
ceil(a, b) == -((-a) \div b)

(***************************************************************************)
(* int(text, 8), of bytes or of ASCII str: white space around, a sign, an  *)
(* optional 0o prefix, octal digits with single underscores between them.  *)
(***************************************************************************)
WhiteSpace == {9, 10, 11, 12, 13, 32}

OctDigits == 48..55

RECURSIVE OctValue(_, _)
OctValue(d, acc) ==
    IF d = <<>> THEN acc
    ELSE IF d[1] = 95 THEN OctValue(Tail(d), acc)
    ELSE OctValue(Tail(d), acc * 8 + (d[1] - 48))

int(text, base) ==
    LET s    == strip(text, WhiteSpace)
        neg  == s # <<>> /\ s[1] = 45
        us   == IF s # <<>> /\ s[1] \in {43, 45} THEN Tail(s) ELSE s
        pre  == Len(us) >= 2 /\ us[1] = 48 /\ us[2] \in {79, 111}
        p1   == IF pre THEN SubSeq(us, 3, Len(us)) ELSE us
        d    == IF pre /\ p1 # <<>> /\ p1[1] = 95 THEN Tail(p1) ELSE p1
        good == /\ base = 8
                /\ d # <<>>
                /\ \A i \in 1..Len(d) : d[i] \in OctDigits \cup {95}
                /\ d[1] # 95 /\ d[Len(d)] # 95
                /\ \A i \in 1..(Len(d) - 1) : ~(d[i] = 95 /\ d[i + 1] = 95)
    IN  IF ~good THEN Raise("ValueError")
        ELSE IF neg THEN Ok(-OctValue(d, 0)) ELSE Ok(OctValue(d, 0))

(***************************************************************************)
(* struct.unpack(fmt, data).  A format is the sequence of its items        *)
(* <<count, code>>: "s" a byte string of count bytes, "c" one byte, "x"    *)
(* count pad bytes that give no value.                                     *)
(***************************************************************************)
_HEADER_FMT1 == << <<100, "s">>, <<8, "s">>, <<8, "s">>, <<8, "s">>,
                   <<12, "s">>, <<12, "s">>, <<8, "s">>, <<1, "c">>,
                   <<100, "s">>, <<255, "s">> >>

_HEADER_FMT2 == << <<6, "s">>, <<2, "s">>, <<32, "s">>, <<32, "s">>,
                   <<8, "s">>, <<8, "s">>, <<155, "s">>, <<12, "s">> >>

_HEADER_FMT3 == << <<6, "s">>, <<2, "s">>, <<32, "s">>, <<32, "s">>,
                   <<8, "s">>, <<8, "s">>, <<12, "s">>, <<12, "s">>,
                   <<112, "s">>, <<31, "x">> >>

RECURSIVE calcsize(_)
calcsize(fmt) == IF fmt = <<>> THEN 0 ELSE fmt[1][1] + calcsize(Tail(fmt))

RECURSIVE UnpackFrom(_, _)
UnpackFrom(fmt, data) ==
    IF fmt = <<>> THEN <<>>
    ELSE LET n    == fmt[1][1]
             rest == UnpackFrom(Tail(fmt), SubSeq(data, n + 1, Len(data)))
         IN  IF fmt[1][2] = "x" THEN rest
             ELSE <<SubSeq(data, 1, n)>> \o rest

unpack(fmt, data) ==
    IF Len(data) # calcsize(fmt) THEN Raise("struct.error")
    ELSE Ok(UnpackFrom(fmt, data))

(***************************************************************************)
(* The archives the reader is run on.  They are written the way a tar      *)
(* writer writes them: the fields of FileHeader at the offsets of          *)
(* _HEADER_FMT1, numbers as zero-filled octal text ending in NUL, the data *)
(* padded with NULs to the next block.                                     *)
(***************************************************************************)
_BLOCK_SIZE == 512

_NULL_BLOCK == bytes(512)

\* text on n bytes, NUL-padded on the right
pad(b, n) == b \o bytes(n - Len(b))

RECURSIVE octdigits(_, _)
octdigits(n, k) ==
    IF k = 0 THEN <<>> ELSE octdigits(n \div 8, k - 1) \o <<48 + (n % 8)>>

\* a number on n bytes: n - 1 octal digits and a NUL
oct(n, w) == octdigits(n, w - 1) \o <<0>>

\* "ustar  " NUL: the magic and version a GNU writer puts
MagicGnu == <<117, 115, 116, 97, 114, 32, 32, 0>>

\* "ustar" NUL "00": the magic and version a POSIX writer puts
MagicPosix == <<117, 115, 116, 97, 114, 0, 48, 48>>

\* the 255 bytes after linkname
TailOf(magic) ==
    IF magic = "v7" THEN bytes(255)
    ELSE (IF magic = "gnu" THEN MagicGnu ELSE MagicPosix)
         \o pad(<<117>>, 32) \o pad(<<103>>, 32) \o oct(0, 8) \o oct(0, 8)
         \o bytes(167)

HeaderBlock(name, flag, size, link, magic) ==
    pad(name, 100) \o oct(420, 8) \o oct(1000, 8) \o oct(1000, 8)
    \o oct(size, 12) \o oct(86400, 12) \o <<48, 48, 53, 52, 57, 50, 0, 32>>
    \o <<flag>> \o pad(link, 100) \o TailOf(magic)

\* the data of an entry and its padding
DataBlocks(data) == pad(data, ceil(Len(data), 512) * 512)

\* names and contents, as code points
NameData == <<100, 97, 116, 97, 47>>

NameA == <<100, 97, 116, 97, 47, 97, 46, 116, 120, 116>>

NameP == <<112>>

NameV == <<118>>

NameN == <<110, 57>>

NameLnk == <<108, 110, 107>>

NameCut == <<99, 117, 116>>

NameLongLink == <<46, 47, 46, 47, 64, 76, 111, 110, 103, 76, 105, 110, 107>>

\* a name of 101 bytes, and the 100 bytes of it that fit the name field
NameLong == [i \in 1..101 |-> IF i <= 5 THEN NameData[i] ELSE 98]

NamePrefix == SubSeq(NameLong, 1, 100)

NameAbsent == <<122>>

Hello == <<104, 101, 108, 108, 111>>

Data513 == [i \in 1..513 |-> 97 + (i % 26)]

\* The kinds of item an archive of the model is made of.  size is the size
\* the header declares, data the bytes that follow the header in the file
\* (padded to a block when padded is TRUE), long the name a GNU long-name
\* block before the header carries (empty: there is no such block).
Item(name, flag, size, data, padded, link, magic, long) ==
    [name |-> name, flag |-> flag, size |-> size, data |-> data,
     padded |-> padded, link |-> link, magic |-> magic, long |-> long]

Items ==
    [dir   |-> Item(NameData, 53, 0, <<>>, TRUE, <<>>, "gnu", <<>>),
     file  |-> Item(NameA, 48, 5, Hello, TRUE, <<>>, "gnu", <<>>),
     file2 |-> Item(NameA, 48, 513, Data513, TRUE, <<>>, "gnu", <<>>),
     posix |-> Item(NameP, 48, 5, Hello, TRUE, <<>>, "posix", <<>>),
     v7    |-> Item(NameV, 48, 5, Hello, TRUE, <<>>, "v7", <<>>),
     long  |-> Item(NamePrefix, 48, 5, Hello, TRUE, <<>>, "gnu", NameLong),
     t9    |-> Item(NameN, 57, 0, <<>>, TRUE, <<>>, "gnu", <<>>),
     sym   |-> Item(NameLnk, 50, 0, <<>>, TRUE, NameA, "gnu", <<>>),
     cut   |-> Item(NameCut, 48, 5, <<104, 101, 108>>, FALSE, <<>>, "gnu", <<>>)]

\* the number of blocks a scan looks at: range(1000)
ScanCap == 1000

\* b, n times
Repeat(b, n) == [i \in 1..(n * Len(b)) |-> b[((i - 1) % Len(b)) + 1]]

\* the name and the data of a file of as many blocks as a scan looks at
NameBig == <<98, 105, 103>>

DataBig == Repeat(<<97>>, ScanCap * _BLOCK_SIZE)

\* An archive is the sequence of its items: entries, "zero" for one zero
\* block, "end" for the two zero blocks that end an archive, "many" for as
\* many directory entries as a scan looks at blocks, "big" for a file of
\* as many data blocks, "half" for the first half of the header block of
\* a file, the rest of which was cut off.
ItemBytes(k) ==
    IF k = "zero" THEN _NULL_BLOCK
    ELSE IF k = "end" THEN _NULL_BLOCK \o _NULL_BLOCK
    ELSE IF k = "many"
    THEN Repeat(HeaderBlock(NameData, 53, 0, <<>>, "gnu"), ScanCap)
    ELSE IF k = "big"
    THEN HeaderBlock(NameBig, 48, Len(DataBig), <<>>, "gnu") \o DataBig
    ELSE IF k = "half"
    THEN SubSeq(HeaderBlock(NameA, 48, 5, <<>>, "gnu"), 1,
                _BLOCK_SIZE \div 2)
    ELSE (IF Items[k].long = <<>> THEN <<>>
          ELSE HeaderBlock(NameLongLink, 76, Len(Items[k].long) + 1, <<>>,
                           "gnu")
               \o DataBlocks(Items[k].long \o <<0>>))
         \o HeaderBlock(Items[k].name, Items[k].flag, Items[k].size,
                        Items[k].link, Items[k].magic)
         \o (IF Items[k].padded THEN DataBlocks(Items[k].data)
             ELSE Items[k].data)

RECURSIVE ArchiveBytes(_)
ArchiveBytes(a) ==
    IF a = <<>> THEN <<>> ELSE ItemBytes(a[1]) \o ArchiveBytes(Tail(a))

Kinds == DOMAIN Items

\* the items of the archives that hold single zero blocks
ZeroKinds == {"zero", "dir", "file"}

RECURSIVE SeqsUpTo(_, _)
SeqsUpTo(S, n) ==
    IF n = 0 THEN {<<>>}
    ELSE LET shorter == SeqsUpTo(S, n - 1)
         IN  shorter \cup {Append(s, x) : s \in shorter, x \in S}

\* entries and the end of the archive after them; an archive whose last
\* entry is cut short ends there
WithEnd(s) ==
    IF s # <<>> /\ s[Len(s)] = "cut" THEN s ELSE Append(s, "end")

\* The archives of the model: up to MaxItems entries of any kind and the
\* end, and up to MaxZeroItems zero blocks and plain entries, ended by the
\* end of the file.
Archives ==
    {WithEnd(s) : s \in SeqsUpTo(Kinds, MaxItems)}
    \cup SeqsUpTo(ZeroKinds, MaxZeroItems)

\* archives of more entries, and of more blocks, than a scan looks at
\* blocks, and archives cut in the header block of the last entry
CapArchives ==
    {<<"many", "file", "end">>, <<"big", "file", "end">>,
     <<"half">>, <<"dir", "half">>}

AllArchives == Archives \cup CapArchives

\* the names the entries of an item are written under
ItemNames(k) ==
    IF k \in {"zero", "end"} THEN {}
    ELSE IF k = "many" THEN {NameData}
    ELSE IF k = "big" THEN {NameBig}
    ELSE IF k = "half" THEN {NameA}
    ELSE {Items[k].name, Items[k].long} \ {<<>>}

\* the bytes of every archive of the model
File == [a \in AllArchives |-> ArchiveBytes(a)]

(***************************************************************************)
(* TarParser.                                                              *)
(***************************************************************************)
VARIABLES
    archive,            \* the items the archive file was written from
    _file_to_position,  \* self._file_to_position
    gen,                \* the frame of the generator tar.files() returned
    gen2,               \* the frame of a second generator of tar.files()
    res,                \* the last call on the facade and its outcome
    dest                \* the directory extract writes to

vars == <<archive, _file_to_position, gen, gen2, res, dest>>

\* f.seek(pos); f.read(n), of the archive file
read(file, pos, n) == Slice(file, pos, pos + n)

\* d[k] = v of a dict
SetItem(d, k, v) == [n \in DOMAIN d \cup {k} |-> IF n = k THEN v ELSE d[n]]

\* line 90 without its test: the pending long name is never used
Truthy_never(lln) == FALSE

\* the truth value of long_link_name: None and '' are false
Truthy(lln) == IsOk(lln) /\ lln.val # <<>>

\* The frame of get_names: pc is where it stands ("created": not started,
\* "yield": suspended at line 99, "yield_long": suspended at line 93,
\* "done": returned or raised), pos is f.tell(), i the value of the loop
\* variable, blk the offset block was read at, out the names yielded so
\* far, end the exception the generator ended with (StopIteration when it
\* returned).
NewFrame ==
    [pc |-> "created", pos |-> 0, i |-> 0, zero |-> FALSE, lln |-> None,
     blk |-> 0, out |-> <<>>, end |-> None]

\* the generator returns, or raises: outcome is the exception
Finish(fr, idx, outcome) ==
    [frame |-> [fr EXCEPT !.pc = "done", !.end = outcome],
     index |-> idx, out |-> outcome]

\* lines 91-93 and 97-99 with setdefault for the assignment: a name the
\* index holds keeps its offset
Yield_first(fr, idx, pc, name, at) ==
    [frame |-> [fr EXCEPT !.pc = pc, !.blk = at,
                          !.out = Append(fr.out, name)],
     index |-> IF name \in DOMAIN idx THEN idx
               ELSE SetItem(idx, name, fr.pos - _BLOCK_SIZE),
     out   |-> Ok(name)]

\* lines 93 and 99 without lines 91 and 97: the name is yielded and the
\* index is left as it is
Yield_unrecorded(fr, idx, pc, name, at) ==
    [frame |-> [fr EXCEPT !.pc = pc, !.blk = at,
                          !.out = Append(fr.out, name)],
     index |-> idx,
     out   |-> Ok(name)]

\* lines 91-93 and 97-99: record the name under the offset of the header
\* block and yield it; pc is the yield the generator is suspended at
Yield(fr, idx, pc, name, at) ==
    [frame |-> [fr EXCEPT !.pc = pc, !.blk = at,
                          !.out = Append(fr.out, name)],
     index |-> SetItem(idx, name, fr.pos - _BLOCK_SIZE),
     out   |-> Ok(name)]

RECURSIVE Iterate(_, _, _)

\* line 78 with the end of the file alone: a zero block is no end
NullOrEmpty_eof(block) == block = <<>>

\* line 78: the block read is a zero block, or the file has no more bytes
NullOrEmpty(block) == block = _NULL_BLOCK \/ block = <<>>

\* line 80: the block read ends the scan
EndOfArchive(zero_block, block) == zero_block \/ block = <<>>

\* line 101: the bytes the data of an entry takes in the archive
DataSize(size) == ceil(size, _BLOCK_SIZE) * _BLOCK_SIZE

\* lines 87-89: block is a long-name block and name the text of the block
\* read after it, fr.pos the position after both
OnLongName(file, fr, idx, name) ==
    IF IsRaise(name) THEN Finish(fr, idx, name)
    ELSE Iterate(file, [fr EXCEPT !.lln = name, !.i = fr.i + 1], idx)

\* lines 96-99: filename is the text of the name field of the block read
\* at the offset at
OnFileName(fr, idx, filename, at) ==
    IF IsRaise(filename) THEN Finish(fr, idx, filename)
    ELSE Yield(fr, idx, "yield", filename.val, at)

\* lines 78-99: the block read at the top of the loop; fr.pos is the
\* position it was read at
OnBlock(file, fr, idx, block) ==
    LET tell == fr.pos + Len(block)
    IN  IF NullOrEmpty(block)
        THEN IF EndOfArchive(fr.zero, block)
             THEN Finish([fr EXCEPT !.pos = tell], idx, Raise("StopIteration"))
             ELSE Iterate(file, [fr EXCEPT !.pos = tell, !.zero = TRUE,
                                           !.i = fr.i + 1], idx)
        ELSE IF Slice(block, 156, 157) = <<76>>
        THEN OnLongName(file,
                 [fr EXCEPT !.zero = FALSE,
                     !.pos = tell + Len(read(file, tell, _BLOCK_SIZE))],
                 idx, decode(strip(read(file, tell, _BLOCK_SIZE), {0})))
        ELSE IF Truthy(fr.lln)
        THEN Yield([fr EXCEPT !.pos = tell, !.zero = FALSE], idx,
                   "yield_long", fr.lln.val, fr.pos)
        ELSE OnFileName([fr EXCEPT !.pos = tell, !.zero = FALSE], idx,
                        decode(strip(Slice(block, 0, 100), {0})), fr.pos)

\* lines 76-99 with while True for the loop of line 76
Iterate_uncapped(file, fr, idx) ==
    OnBlock(file, fr, idx, read(file, fr.pos, _BLOCK_SIZE))

\* get_names, lines 76-99: the iterations of the loop from the top of one
\* to the next yield, return or exception
Iterate(file, fr, idx) ==
    IF fr.i >= ScanCap THEN Finish(fr, idx, Raise("StopIteration"))
    ELSE OnBlock(file, fr, idx, read(file, fr.pos, _BLOCK_SIZE))

\* line 100: the size field of the header block
SizeOf(block) ==
    Then(decode(strip(Slice(block, 124, 136), {0})),
         LAMBDA text : int(text, 8))

\* lines 101-102: f.seek past the data, and the next iteration
Skip(file, fr, idx, size) ==
    IF IsRaise(size) THEN Finish(fr, idx, size)
    ELSE IF fr.pos + DataSize(size.val) < 0
    THEN Finish(fr, idx, Raise("OSError"))
    ELSE Iterate(file,
             [fr EXCEPT !.i = fr.i + 1, !.pos = fr.pos + DataSize(size.val)],
             idx)

\* lines 100-102 without line 94: the long name stays pending
Resume_keep(file, fr, idx) ==
    Skip(file, fr, idx, SizeOf(read(file, fr.blk, _BLOCK_SIZE)))

\* get_names, lines 94 and 100-102: from a yield to the top of the loop
Resume(file, fr, idx) ==
    Skip(file, IF fr.pc = "yield_long" THEN [fr EXCEPT !.lln = None] ELSE fr,
         idx, SizeOf(read(file, fr.blk, _BLOCK_SIZE)))

\* next() of the generator of get_names: what it leaves of the frame and
\* of the index, and the name it yields or the exception it ends with
get_names(file, fr, idx) ==
    IF fr.pc = "created" THEN Iterate(file, fr, idx)
    ELSE IF fr.pc \in {"yield", "yield_long"} THEN Resume(file, fr, idx)
    ELSE [frame |-> fr, index |-> idx, out |-> Raise("StopIteration")]

\* TarParser._FILE_TYPES, by the byte of the type flag
_FILE_TYPES ==
    [b \in {48, 49, 50, 51, 52, 53, 54, 55, 68, 75, 76, 77, 78, 83, 86} |->
        CASE b = 48 -> "Regular file"
          [] b = 49 -> "Hard link"
          [] b = 50 -> "Symbolic link"
          [] b = 51 -> "Character device node"
          [] b = 52 -> "Block device node"
          [] b = 53 -> "Directory"
          [] b = 54 -> "FIFO node"
          [] b = 55 -> "Reserved"
          [] b = 68 -> "Directory entry"
          [] b = 75 -> "Long linkname"
          [] b = 76 -> "Long pathname"
          [] b = 77 -> "Continue of last file"
          [] b = 78 -> "Rename/symlink command"
          [] b = 83 -> "`sparse' regular file"
          [] b = 86 -> "`name' is tape/volume header name"]

\* "ustar ", the marker unpack_second_part looks for
UstarSpace == <<117, 115, 116, 97, 114, 32>>

\* the fields of FileHeader, in order; the first nine have no default
FileHeaderFields ==
    <<"file_name", "access_mod", "user_id", "group_id", "size",
      "last_mod_time", "check_sum", "file_type", "link_name", "magic",
      "version", "user_name", "group_name", "dev_major", "dev_minor",
      "prefix", "other">>

\* the place of a field of FileHeader
FieldIndex ==
    [k \in {FileHeaderFields[j] : j \in 1..Len(FileHeaderFields)} |->
        CHOOSE j \in 1..Len(FileHeaderFields) : FileHeaderFields[j] = k]

\* FileHeader(*args)
FileHeader(args) ==
    IF Len(args) < 9 \/ Len(args) > Len(FileHeaderFields)
    THEN Raise("TypeError")
    ELSE Ok([k \in DOMAIN FieldIndex |->
              IF FieldIndex[k] <= Len(args) THEN args[FieldIndex[k]]
              ELSE None])

\* unpack_second_part(header), lines 105-108: the fields of the tail
second_part(last) ==
    IF startswith(last, UstarSpace) THEN unpack(_HEADER_FMT2, last)
    ELSE unpack(_HEADER_FMT3, last)

unpack_second_part(header) ==
    Then(second_part(header[Len(header)]),
         LAMBDA part : Ok(SubSeq(header, 1, Len(header) - 1) \o part))

\* decode_to_int_from_octal(header, decoded_header, 1, 2, 3, 4, 5); the
\* index i of the code is the position i + 1 of the sequence.  The outcome
\* is the list, None (line 135) or an exception.
RECURSIVE decode_to_int_from_octal(_, _, _)
decode_to_int_from_octal(header, decoded_header, indexes) ==
    IF indexes = <<>> THEN Ok(decoded_header)
    ELSE IF indexes[1] > Len(header) THEN None
    ELSE Then(int(strip(header[indexes[1] + 1], {0}), 8),
              LAMBDA n : decode_to_int_from_octal(
                             header,
                             [decoded_header EXCEPT ![indexes[1] + 1] = Ok(n)],
                             Tail(indexes)))

\* datetime.fromtimestamp(t): a naive local time, kept as its seconds
fromtimestamp(t) == [datetime |-> t]

\* line 116: every field without its NULs, decoded
DecodeFields(header) ==
    LET texts == [j \in 1..Len(header) |-> decode(strip(header[j], {0}))]
    IN  IF \E j \in 1..Len(header) : IsRaise(texts[j])
        THEN Raise("UnicodeDecodeError")
        ELSE Ok(texts)

\* lines 120-123; numbers is what decode_to_int_from_octal returned
Fill(header, numbers, filename) ==
    IF IsRaise(numbers) THEN numbers
    ELSE IF numbers = None THEN Raise("TypeError")
    ELSE IF header[8][1] \notin DOMAIN _FILE_TYPES THEN Raise("KeyError")
    ELSE FileHeader([numbers.val EXCEPT
             ![6] = fromtimestamp(numbers.val[6].val),
             ![8] = Ok(_FILE_TYPES[header[8][1]]),
             ![1] = Ok(filename)])

\* lines 116-123, of the fields unpacked
DecodeHeader(header, filename) ==
    Then(DecodeFields(header),
         LAMBDA decoded_header :
             Fill(header,
                  decode_to_int_from_octal(header, decoded_header,
                                           <<1, 2, 3, 4, 5>>),
                  filename))

\* get_file_data(start_byte, filename).  The fields of the record are
\* wrapped: Ok(text), Ok(number), a datetime, or None.
get_file_data(file, start_byte, filename) ==
    IF start_byte < 0 THEN Raise("OSError")
    ELSE Then(Then(unpack(_HEADER_FMT1, read(file, start_byte, _BLOCK_SIZE)),
                   unpack_second_part),
              LAMBDA header : DecodeHeader(header, filename))

\* get_file_data at every block of every archive of the model, computed
\* once: the record depends on filename in its field file_name alone
DataAt ==
    [a \in AllArchives |->
        [k \in 0..(Len(File[a]) \div _BLOCK_SIZE) |->
            get_file_data(File[a], k * _BLOCK_SIZE, <<>>)]]

\* get_file_data(start_byte, filename) on the file of the archive a
FileData(a, start_byte, filename) ==
    IF start_byte < 0 \/ start_byte % _BLOCK_SIZE # 0
    THEN get_file_data(File[a], start_byte, filename)
    ELSE IF IsRaise(DataAt[a][start_byte \div _BLOCK_SIZE])
    THEN DataAt[a][start_byte \div _BLOCK_SIZE]
    ELSE Ok([DataAt[a][start_byte \div _BLOCK_SIZE].val
                EXCEPT !.file_name = Ok(filename)])

\* f.seek(start); f.read(size)
SeekRead(file, start, size) ==
    IF start < 0 THEN Raise("OSError")
    ELSE IF size < -1 THEN Raise("ValueError")
    ELSE IF size = -1 THEN Ok(read(file, start, Len(file)))
    ELSE Ok(read(file, start, size))

\* get_file_bytes(file_data)
get_file_bytes(file, idx, file_data) ==
    IF file_data.file_name.val \notin DOMAIN idx THEN Raise("KeyError")
    ELSE SeekRead(file, idx[file_data.file_name.val] + _BLOCK_SIZE,
                  file_data.size.val)

\* file_stat, lines 184-195: the list made of the record data
Info(data, idx) ==
    << <<"Filename", data.file_name, idx>>,
       <<"Type", data.file_type>>,
       <<"Mode", data.access_mod>>,
       <<"UID", data.user_id>>,
       <<"GID", data.group_id>>,
       <<"Size", data.size>>,
       <<"Modification time", data.last_mod_time>>,
       <<"Checksum", data.check_sum>>,
       <<"User name", data.user_name>>,
       <<"Group name", data.group_name>> >>

\* line 183 with .get(filename, 0): an unknown name is looked up at the
\* start of the file
file_stat_default(a, idx, filename) ==
    Then(FileData(a, IF filename \in DOMAIN idx THEN idx[filename] ELSE 0,
                  filename),
         LAMBDA data : Ok(Info(data, idx)))

\* file_stat(filename), on the file of the archive a
file_stat(a, idx, filename) ==
    IF filename \notin DOMAIN idx THEN Raise("KeyError")
    ELSE Then(FileData(a, idx[filename], filename),
              LAMBDA data : Ok(Info(data, idx)))

(***************************************************************************)
(* The destination directory of extract.  A path below it is the name      *)
(* without the slashes at its ends; the file system maps the paths that    *)
(* exist to Dir or to RegFile(content).                                    *)
(***************************************************************************)
Dir == [kind |-> "dir"]

RegFile(content) == [kind |-> "file", content |-> content]

Path(name) == strip(name, {47})

EndsWithSlash(name) == name # <<>> /\ name[Len(name)] = 47

\* the directory a path lies in; the empty path is the destination itself
Parent(p) ==
    LET slashes == {i \in 1..Len(p) : p[i] = 47}
    IN  IF slashes = {} THEN <<>>
        ELSE Path(SubSeq(p, 1, -Least({-i : i \in slashes})))

IsDirectory(fs, p) == p = <<>> \/ (p \in DOMAIN fs /\ fs[p].kind = "dir")

\* lines 147 and 150 without their tests: nothing is taken to exist
exists_never(fs, name) == FALSE

\* os.path.exists(dest + '/' + name)
exists(fs, name) ==
    \/ IsDirectory(fs, Path(name))
    \/ Path(name) \in DOMAIN fs /\ ~EndsWithSlash(name)

\* why nothing can be created at a path: its directory is missing or is
\* no directory; or None
ParentError(fs, p) ==
    IF IsDirectory(fs, Parent(p)) THEN None
    ELSE IF Parent(p) \in DOMAIN fs THEN Raise("NotADirectoryError")
    ELSE Raise("FileNotFoundError")

\* os.mkdir(dest + '/' + name): the file system it leaves, or an exception
mkdir(fs, name) ==
    IF Path(name) = <<>> \/ Path(name) \in DOMAIN fs
    THEN Raise("FileExistsError")
    ELSE IF ParentError(fs, Path(name)) # None
    THEN ParentError(fs, Path(name))
    ELSE Ok(SetItem(fs, Path(name), Dir))

\* with open(dest + '/' + name, mode) as f: f.write(data), for the modes
\* 'xb' (create, fail if the path exists) and 'wb' (create or truncate)
write(fs, name, mode, data) ==
    IF Path(name) = <<>> \/ EndsWithSlash(name) \/ IsDirectory(fs, Path(name))
    THEN Raise("IsADirectoryError")
    ELSE IF ParentError(fs, Path(name)) # None
    THEN ParentError(fs, Path(name))
    ELSE IF mode = "xb" /\ Path(name) \in DOMAIN fs
    THEN Raise("FileExistsError")
    ELSE Ok(SetItem(fs, Path(name), RegFile(data)))

\* lines 146-151 without the else of lines 153-155: a regular file whose
\* path exists is left as it is
Place_once(file, idx, fs, data) ==
    IF data.file_type.val = "Directory"
    THEN IF ~exists(fs, data.file_name.val)
         THEN mkdir(fs, data.file_name.val)
         ELSE Ok(fs)
    ELSE IF data.file_type.val = "Regular file"
    THEN IF ~exists(fs, data.file_name.val)
         THEN Then(get_file_bytes(file, idx, data),
                   LAMBDA b : write(fs, data.file_name.val, "xb", b))
         ELSE Ok(fs)
    ELSE Ok(fs)

\* lines 146-155 with else for the elif of line 149: what is no directory
\* is written as a regular file
Place_all(file, idx, fs, data) ==
    IF data.file_type.val = "Directory"
    THEN IF ~exists(fs, data.file_name.val)
         THEN mkdir(fs, data.file_name.val)
         ELSE Ok(fs)
    ELSE IF ~exists(fs, data.file_name.val)
         THEN Then(get_file_bytes(file, idx, data),
                   LAMBDA b : write(fs, data.file_name.val, "xb", b))
         ELSE Then(get_file_bytes(file, idx, data),
                   LAMBDA b : write(fs, data.file_name.val, "wb", b))

\* extract, lines 146-155, of the record data decoded for the name
Place(file, idx, fs, data) ==
    IF data.file_type.val = "Directory"
    THEN IF ~exists(fs, data.file_name.val)
         THEN mkdir(fs, data.file_name.val)
         ELSE Ok(fs)
    ELSE IF data.file_type.val = "Regular file"
    THEN IF ~exists(fs, data.file_name.val)
         THEN Then(get_file_bytes(file, idx, data),
                   LAMBDA b : write(fs, data.file_name.val, "xb", b))
         ELSE Then(get_file_bytes(file, idx, data),
                   LAMBDA b : write(fs, data.file_name.val, "wb", b))
    ELSE Ok(fs)

\* extract, lines 144-155: the body of the loop for one name; the file
\* system it leaves, or an exception
ExtractOne(a, idx, fs, name) ==
    Then(FileData(a, idx[name], name),
         LAMBDA data : Place(File[a], idx, fs, data))

RECURSIVE extract(_, _, _, _)

\* the loop of extract after the body has run for the name r yielded
Continue(a, r, fs, placed) ==
    IF IsRaise(placed) THEN [index |-> r.index, fs |-> fs, out |-> placed]
    ELSE extract(a, r.frame, r.index, placed.val)

\* line 143: r is what next() of the generator gave
ForEach(a, r, fs) ==
    IF r.out = Raise("StopIteration")
    THEN [index |-> r.index, fs |-> fs, out |-> None]
    ELSE IF IsRaise(r.out) THEN [index |-> r.index, fs |-> fs, out |-> r.out]
    ELSE Continue(a, r, fs, ExtractOne(a, r.index, fs, r.out.val))

\* extract(dest) on the file of the archive a: the loop over self.files(),
\* from the frame fr of its generator on: the index and the file system it
\* leaves, and None or the exception it ends with
extract(a, fr, idx, fs) == ForEach(a, get_names(File[a], fr, idx), fs)

(***************************************************************************)
(* The calls on a TarParser.                                               *)
(***************************************************************************)
\* what the destination directory may hold before the first call
OldData == <<79, 76, 68, 68, 65, 84, 65>>

InitialFs ==
    {<<>>,
     SetItem(SetItem(<<>>, Path(NameData), Dir), NameA, RegFile(OldData))}

NoFrame == [NewFrame EXCEPT !.pc = "none"]

\* the names a caller asks about: those of the archive, and one of none
QueryNames(a) == UNION {ItemNames(a[j]) : j \in 1..Len(a)} \cup {NameAbsent}

\* the record a caller asks the payload of: the one get_file_data gives
\* for the name when it is indexed and its header decodes, else one made
\* by hand
Sized5(name) == [file_name |-> Ok(name), size |-> Ok(5)]

RecordFor(a, idx, name) ==
    IF name \notin DOMAIN idx THEN Sized5(name)
    ELSE IF IsRaise(FileData(a, idx[name], name)) THEN Sized5(name)
    ELSE FileData(a, idx[name], name).val

\* TarParser(filename)
Init ==
    /\ archive \in Archives
    /\ _file_to_position = <<>>
    /\ gen = NoFrame
    /\ gen2 = NoFrame
    /\ res = [op |-> "__init__"]
    /\ dest \in InitialFs

\* it = tar.files()
Files ==
    /\ gen.pc \in {"none", "done"}
    /\ gen' = NewFrame
    /\ res' = [op |-> "files"]
    /\ UNCHANGED <<archive, _file_to_position, gen2, dest>>

\* next(it)
NextName ==
    /\ gen.pc \in {"created", "yield", "yield_long"}
    /\ \E r \in {get_names(File[archive], gen, _file_to_position)} :
           /\ gen' = r.frame
           /\ _file_to_position' = r.index
           /\ res' = [op |-> "next", out |-> r.out]
    /\ UNCHANGED <<archive, gen2, dest>>

\* tar.file_stat(name)
Stat(name) ==
    /\ res' = [op |-> "file_stat", arg |-> name,
               out |-> file_stat(archive, _file_to_position, name)]
    /\ UNCHANGED <<archive, _file_to_position, gen, gen2, dest>>

\* tar.get_file_bytes(record)
GetFileBytes(record) ==
    /\ res' = [op |-> "get_file_bytes", arg |-> record,
               out |-> get_file_bytes(File[archive], _file_to_position,
                                      record)]
    /\ UNCHANGED <<archive, _file_to_position, gen, gen2, dest>>

\* tar.extract(dest)
Extract ==
    /\ \E r \in {extract(archive, NewFrame, _file_to_position, dest)} :
           /\ _file_to_position' = r.index
           /\ dest' = r.fs
           /\ res' = [op |-> "extract", before |-> dest, out |-> r.out]
    /\ UNCHANGED <<archive, gen, gen2>>

Next ==
    \/ Files
    \/ NextName
    \/ \E name \in QueryNames(archive) : Stat(name)
    \/ \E name \in QueryNames(archive) :
           GetFileBytes(RecordFor(archive, _file_to_position, name))
    \/ Extract

Spec == Init /\ [][Next]_vars

\* The scans and the lookups of an archive of any size, those of more
\* entries than a scan looks at blocks among them.
InitCap ==
    /\ archive \in AllArchives
    /\ _file_to_position = <<>>
    /\ gen = NoFrame
    /\ gen2 = NoFrame
    /\ res = [op |-> "__init__"]
    /\ dest = <<>>

NextCap ==
    \/ Files
    \/ NextName
    \/ \E name \in QueryNames(archive) : Stat(name)
    \/ \E name \in QueryNames(archive) :
           GetFileBytes(RecordFor(archive, _file_to_position, name))

SpecCap == InitCap /\ [][NextCap]_vars

\* Two generators of tar.files() on one TarParser.  Each has a frame of
\* its own (the file it opened, block, was_first_zero_block and
\* long_link_name are locals of get_names); self._file_to_position is
\* the one of the TarParser.
InitScan ==
    /\ archive \in Archives
    /\ _file_to_position = <<>>
    /\ gen = NoFrame
    /\ gen2 = NoFrame
    /\ res = [op |-> "__init__"]
    /\ dest = <<>>

\* it = tar.files(), the first call on the TarParser
FirstFiles == gen.pc = "none" /\ Files

\* it2 = tar.files() of a get_names that would go on where the scan before
\* it stopped reading
Files2_shared ==
    /\ gen2.pc = "none"
    /\ gen2' = [NewFrame EXCEPT !.pos = gen.pos]
    /\ res' = [op |-> "files"]
    /\ UNCHANGED <<archive, _file_to_position, gen, dest>>

\* it2 = tar.files()
Files2 ==
    /\ gen2.pc = "none"
    /\ gen2' = NewFrame
    /\ res' = [op |-> "files"]
    /\ UNCHANGED <<archive, _file_to_position, gen, dest>>

\* it2 = tar.files(), when it came to its end
FilesAgain == gen.pc = "done" /\ Files2

\* next(it2) of a get_names whose read position is one of the TarParser,
\* not of the call: it2 reads on where it last read
NextName2_shared ==
    /\ gen2.pc \in {"created", "yield", "yield_long"}
    /\ \E r \in {get_names(File[archive],
                            [gen2 EXCEPT !.pos = Max(gen.pos, gen2.pos)],
                            _file_to_position)} :
           /\ gen2' = r.frame
           /\ _file_to_position' = r.index
           /\ res' = [op |-> "next", out |-> r.out]
    /\ UNCHANGED <<archive, gen, dest>>

\* next(it2)
NextName2 ==
    /\ gen2.pc \in {"created", "yield", "yield_long"}
    /\ \E r \in {get_names(File[archive], gen2, _file_to_position)} :
           /\ gen2' = r.frame
           /\ _file_to_position' = r.index
           /\ res' = [op |-> "next", out |-> r.out]
    /\ UNCHANGED <<archive, gen, dest>>

\* One scan after the other, and the lookups between the steps of both.
NextSeq ==
    \/ FirstFiles
    \/ NextName
    \/ FilesAgain
    \/ NextName2
    \/ \E name \in QueryNames(archive) : Stat(name)
    \/ \E name \in QueryNames(archive) :
           GetFileBytes(RecordFor(archive, _file_to_position, name))

SpecSeq == InitScan /\ [][NextSeq]_vars

\* Two scans whose steps interleave in every way.
NextTwo ==
    \/ FirstFiles
    \/ NextName
    \/ Files2
    \/ NextName2

SpecTwo == InitScan /\ [][NextTwo]_vars

(***************************************************************************)
(* What was written to an archive, by the items it was built from.         *)
(***************************************************************************)
Range(q) == {q[i] : i \in DOMAIN q}

\* The entries of the item k written at the offset at: the name each is
\* known under, the offset of its header block and the kind of the entry.
EntriesOf(k, at) ==
    IF k \in {"zero", "end", "half"} THEN <<>>
    ELSE IF k = "big"
    THEN << [name |-> NameBig, at |-> at, kind |-> k] >>
    ELSE IF k = "many"
    THEN [i \in 1..ScanCap |->
             [name |-> NameData, at |-> at + (i - 1) * _BLOCK_SIZE,
              kind |-> "dir"]]
    ELSE IF Items[k].long = <<>>
    THEN << [name |-> Items[k].name, at |-> at, kind |-> k] >>
    ELSE << [name |-> Items[k].long, at |-> at + 2 * _BLOCK_SIZE,
             kind |-> k] >>

RECURSIVE Written(_, _)
Written(a, at) ==
    IF a = <<>> THEN <<>>
    ELSE EntriesOf(a[1], at) \o Written(Tail(a), at + Len(ItemBytes(a[1])))

\* the place of the item an archive ends at: its end, or the second of two
\* zero blocks in a row; one past the last item when it has neither
EndAt(a) ==
    Least({j \in 1..Len(a) :
              \/ a[j] = "end"
              \/ j > 1 /\ a[j] = "zero" /\ a[j - 1] = "zero"}
          \cup {Len(a) + 1})

\* the entries of every archive before its end, in the order of the file
Listed == [a \in AllArchives |-> Written(SubSeq(a, 1, EndAt(a) - 1), 0)]

\* the offset the end of an archive lies at: that of its two zero blocks,
\* or the length of the file
EndOffset ==
    [a \in AllArchives |->
        IF EndAt(a) > Len(a) THEN Len(File[a])
        ELSE Len(ArchiveBytes(SubSeq(a, 1, EndAt(a) - 1)))
             - (IF a[EndAt(a)] = "zero" THEN _BLOCK_SIZE ELSE 0)]

\* every entry but the last is followed by its whole data, so that every
\* header lies at a multiple of the block size, and every header is whole
Aligned(a) ==
    /\ \A j \in 1..(Len(a) - 1) : a[j] # "cut"
    /\ "half" \notin Range(a)

NamesOf(entries) == [n \in 1..Len(entries) |-> entries[n].name]

\* what the lookup of a name the index does not hold raises (lines 128, 183)
UnknownEntry == Raise("KeyError")

\* the header block the index holds for a name
BlockOf(name) ==
    read(File[archive], _file_to_position[name], _BLOCK_SIZE)

\* the numbers of a header block are octal, its bytes ASCII
ValidFields(block) ==
    /\ Len(block) = _BLOCK_SIZE
    /\ \A i \in 1..Len(block) : block[i] <= 127
    /\ \A f \in {<<100, 108>>, <<108, 116>>, <<116, 124>>, <<124, 136>>,
                 <<136, 148>>} :
           IsOk(int(strip(Slice(block, f[1], f[2]), {0}), 8))

\* the headers of the archive have the magic "ustar" and a space or a NUL
UstarFamily(a) ==
    \A j \in 1..Len(a) :
        a[j] \in {"dir", "file", "file2", "posix", "long", "sym", "end"}

(***************************************************************************)
(* C1.  For every well-formed archive whose headers are of the ustar       *)
(* family (magic "ustar" and a space or a NUL), once the names have been   *)
(* iterated to the end, file_stat of every listed name raises nothing and  *)
(* reports a Size >= 0.  The code does not do this.                        *)
(***************************************************************************)
C1_StatOfListed ==
    (/\ UstarFamily(archive)
     /\ gen.pc = "done"
     /\ gen.end = Raise("StopIteration")
     /\ res.op = "file_stat"
     /\ res.arg \in Range(gen.out))
    => (IsOk(res.out) /\ res.out.val[6][2].val >= 0)

\* a header block with valid fields whose tail does not begin with "ustar "
PreUstar(block) ==
    /\ ValidFields(block)
    /\ block[157] \in DOMAIN _FILE_TYPES
    /\ ~startswith(Slice(block, 257, 512), UstarSpace)

(***************************************************************************)
(* C2.  Decoding a header block whose tail does not begin with "ustar ",   *)
(* whose numbers are valid octal and whose type flag is known, gives a     *)
(* record filled through the pre-ustar layout, prefix absent, and does not *)
(* fail.  The code does not do this.                                       *)
(***************************************************************************)
C2_PreUstarDecodes ==
    (/\ res.op = "file_stat"
     /\ res.arg \in DOMAIN _file_to_position
     /\ PreUstar(BlockOf(res.arg)))
    => (/\ IsOk(res.out)
        /\ IsOk(FileData(archive, _file_to_position[res.arg], res.arg))
        /\ FileData(archive, _file_to_position[res.arg],
                    res.arg).val.prefix = None)

(***************************************************************************)
(* C3.  An entry whose name is longer than 100 bytes and is carried by a   *)
(* long-name block and one payload block before its header is yielded and  *)
(* indexed under the full name; after a full scan, file_stat of the first  *)
(* 100 bytes of the name fails as the lookup of an unknown name does (no   *)
(* entry of the archives has those 100 bytes as its own name).             *)
(***************************************************************************)
C3_LongName ==
    /\ (/\ Aligned(archive)
        /\ gen.pc \in {"yield", "yield_long"}
        /\ Len(gen.out) <= Len(Listed[archive])
        /\ Listed[archive][Len(gen.out)].kind = "long")
       => (/\ gen.out[Len(gen.out)] = NameLong
           /\ NameLong \in DOMAIN _file_to_position
           /\ res.op = "next" => _file_to_position[NameLong] = gen.blk)
    /\ (/\ Aligned(archive)
        /\ "long" \in Range(archive)
        /\ gen.pc = "done")
       => (/\ NameLong \in Range(gen.out)
           /\ NamePrefix \notin Range(gen.out)
           /\ NameLong \in DOMAIN _file_to_position
           /\ NamePrefix \notin DOMAIN _file_to_position
           /\ (res.op = "file_stat" /\ res.arg = NamePrefix)
              => res.out = UnknownEntry)

C3_Witness ==
    /\ "long" \in Range(archive)
    /\ gen.pc = "done"
    /\ NameLong \in Range(gen.out)
    /\ res.op = "file_stat"
    /\ res.arg = NamePrefix
    /\ res.out = UnknownEntry

\* the last two blocks the scan read are zero blocks in a row
EndedByZeroBlocks ==
    /\ gen.zero
    /\ gen.pos >= 2 * _BLOCK_SIZE
    /\ read(File[archive], gen.pos - 2 * _BLOCK_SIZE, 2 * _BLOCK_SIZE)
       = _NULL_BLOCK \o _NULL_BLOCK

\* the last read of the scan returned no byte
EndedByEOF == gen.pos >= Len(File[archive])

\* the generator returned; it did not raise
Returned == gen.pc = "done" /\ gen.end = Raise("StopIteration")

(***************************************************************************)
(* C4.  The names of a scan end exactly when a zero block is read directly *)
(* after another zero block, or when a read returns the end of the file;   *)
(* one zero block followed by a block that is not zero does not end the    *)
(* scan and the entries after it are yielded; no entry after two zero      *)
(* blocks in a row is ever yielded.  The code does not do this: the names  *)
(* also end when the loop of line 76 has run ScanCap times.                *)
(***************************************************************************)
C4_EndsOnlyAtEnd ==
    /\ Returned => (EndedByZeroBlocks \/ EndedByEOF)
    /\ (Aligned(archive) /\ gen.pc \in {"yield", "yield_long"})
       => (/\ gen.blk < EndOffset[archive]
           /\ Len(gen.out) <= Len(Listed[archive]))
    /\ (Aligned(archive) /\ Returned)
       => Len(gen.out) = Len(Listed[archive])

(***************************************************************************)
(* C5.  get_file_bytes of a record fails when fewer than record.size bytes *)
(* lie in the file after the header block of the record; it never returns  *)
(* fewer bytes than record.size.  The code does not do this.               *)
(***************************************************************************)
C5_TruncatedFails ==
    (/\ res.op = "get_file_bytes"
     /\ res.arg.file_name.val \in DOMAIN _file_to_position
     /\ res.arg.size.val >= 0)
    => (/\ (Len(File[archive])
              - (_file_to_position[res.arg.file_name.val] + _BLOCK_SIZE)
            < res.arg.size.val) => IsRaise(res.out)
        /\ IsOk(res.out) => Len(res.out.val) >= res.arg.size.val)

\* the record a caller gets for an indexed name
DecodedFor(name) == FileData(archive, _file_to_position[name], name)

(***************************************************************************)
(* C6.  For every name a full scan indexed, get_file_bytes of the record   *)
(* decoded for the name returns the bytes that start one block after the   *)
(* indexed offset, as many as the size of the record says.  The code does  *)
(* not do this.                                                            *)
(***************************************************************************)
C6_PayloadOfRecord ==
    (/\ Returned
     /\ res.op = "get_file_bytes"
     /\ res.arg.file_name.val \in DOMAIN _file_to_position
     /\ IsOk(DecodedFor(res.arg.file_name.val))
     /\ res.arg = DecodedFor(res.arg.file_name.val).val)
    => (/\ IsOk(res.out)
        /\ Len(res.out.val) = res.arg.size.val
        /\ res.out.val
           = Slice(File[archive],
                   _file_to_position[res.arg.file_name.val] + _BLOCK_SIZE,
                   _file_to_position[res.arg.file_name.val] + _BLOCK_SIZE
                       + res.arg.size.val))

\* the regular-file entries of an archive that are written to the path p
FilesAt(a, p) ==
    SelectSeq(Listed[a],
              LAMBDA e : Items[e.kind].flag = 48 /\ Path(e.name) = p)

\* every header of the archive decodes
Decodable(a) == \A j \in 1..Len(a) : a[j] \notin {"posix", "v7", "t9"}

(***************************************************************************)
(* C7.  extract never fails merely because the path of a regular-file      *)
(* entry exists: when a regular file of that name is there already, the    *)
(* extraction goes through and the file then holds exactly the data of the *)
(* entry, nothing of what it held before.                                  *)
(***************************************************************************)
C7_Overwrite ==
    (/\ res.op = "extract"
     /\ Aligned(archive)
     /\ NameA \in DOMAIN res.before
     /\ res.before[NameA].kind = "file"
     /\ FilesAt(archive, NameA) # <<>>)
    => (/\ res.out # Raise("FileExistsError")
        /\ Decodable(archive) => res.out = None
        /\ res.out = None
           => dest[NameA]
              = RegFile(Items[FilesAt(archive, NameA)[
                                  Len(FilesAt(archive, NameA))].kind].data)
        /\ dest[NameA]
           \in {res.before[NameA]}
               \cup {RegFile(Items[e.kind].data) :
                        e \in Range(FilesAt(archive, NameA))})

C7_Witness ==
    /\ res.op = "extract"
    /\ archive = <<"dir", "file", "end">>
    /\ NameA \in DOMAIN res.before
    /\ res.before[NameA] = RegFile(OldData)
    /\ res.out = None
    /\ dest[NameA] = RegFile(Hello)

(***************************************************************************)
(* C8.  For an indexed entry whose header block has a type flag that is    *)
(* not in _FILE_TYPES ("9"), file_stat fails with an error of its own,     *)
(* which is not the one an unknown name gives, while the scan still lists  *)
(* the entry.  The code does not do this.                                  *)
(***************************************************************************)
C8_UnknownTypeFails ==
    (/\ res.op = "file_stat"
     /\ res.arg \in DOMAIN _file_to_position
     /\ ValidFields(BlockOf(res.arg))
     /\ BlockOf(res.arg)[157] \notin DOMAIN _FILE_TYPES)
    => (IsRaise(res.out) /\ res.out # UnknownEntry)

(***************************************************************************)
(* C9.  The scan yields, in the order of the archive, exactly one name for *)
(* each header block that is not a long-name block: after the header at    *)
(* the offset o with the size s it looks for the next header at            *)
(* o + 512 + ceil(s / 512) * 512, so that no data block is taken for a     *)
(* header.  The archive of the directory data/ and the file data/a.txt of  *)
(* five bytes gives data/, data/a.txt.  The code does not do this: it      *)
(* yields no name for the header blocks it has not come to when the loop   *)
(* of line 76 has run ScanCap times.                                       *)
(***************************************************************************)
C9_EveryHeaderYielded ==
    /\ (Aligned(archive) /\ gen.pc \in {"yield", "yield_long"})
       => (/\ Len(gen.out) <= Len(Listed[archive])
           /\ gen.out[Len(gen.out)] = Listed[archive][Len(gen.out)].name
           /\ gen.blk = Listed[archive][Len(gen.out)].at
           /\ res.op = "next"
              => _file_to_position[gen.out[Len(gen.out)]] = gen.blk)
    /\ (Aligned(archive) /\ gen.pc = "done")
       => (/\ gen.end = Raise("StopIteration")
           /\ gen.out = NamesOf(Listed[archive]))
    /\ (archive = <<"dir", "file", "end">> /\ gen.pc = "done")
       => gen.out = <<NameData, NameA>>

(***************************************************************************)
(* C10.  On a TarParser no name has been taken from, the index is empty,   *)
(* and file_stat and get_file_bytes fail for every name, those of the      *)
(* entries of the archive among them, as the lookup of an unknown name     *)
(* does: the index is empty at first, and while it is empty, files(),      *)
(* file_stat and get_file_bytes leave it empty and the two lookups fail.   *)
(***************************************************************************)
C10_FreshLookups ==
    /\ _file_to_position = <<>>
    /\ [][(/\ _file_to_position = <<>>
           /\ res'.op \in {"files", "file_stat", "get_file_bytes"})
          => (/\ _file_to_position' = <<>>
              /\ res'.op # "files" => res'.out = UnknownEntry)]_vars

C10_Witness ==
    /\ _file_to_position = <<>>
    /\ gen.out = <<>>
    /\ res.op = "file_stat"
    /\ res.arg \in UNION {ItemNames(archive[j]) : j \in 1..Len(archive)}
    /\ res.out = UnknownEntry

\* list(tar.files()): the generator taken to its end
RECURSIVE ToEnd(_, _)
ToEnd(file, r) ==
    IF r.frame.pc = "done" THEN r
    ELSE ToEnd(file, get_names(file, r.frame, r.index))

\* what one scan alone, of a TarParser nothing was asked of before, yields
\* and leaves in the index
ScanAlone ==
    [a \in Archives |->
        ToEnd(File[a], [frame |-> NewFrame, index |-> <<>>, out |-> None])]

\* the second generator returned; it did not raise
Returned2 == gen2.pc = "done" /\ gen2.end = Raise("StopIteration")

(***************************************************************************)
(* C11.  When the names of tar.files() are taken to the end and then, on   *)
(* the same TarParser and the same file, the names of a second tar.files() *)
(* are taken to the end, the second scan yields the names of the first in  *)
(* the same order, and the index after the second scan is the index after  *)
(* the first (the index one scan alone leaves).                            *)
(***************************************************************************)
C11_SameTwice ==
    /\ (Returned /\ gen2.pc \in {"none", "created"})
       => _file_to_position = ScanAlone[archive].index
    /\ (Returned /\ Returned2)
       => (/\ gen2.out = gen.out
           /\ _file_to_position = ScanAlone[archive].index)

C11_Witness ==
    /\ Returned
    /\ Returned2
    /\ Len(gen2.out) >= 2
    /\ gen2.out[1] = gen2.out[2]

\* the entries of an archive, without the zero blocks after them
EntriesPart(a) == SelectSeq(a, LAMBDA k : k \notin {"zero", "end"})

\* the archive is whole entries and then nothing, one zero block or two
EntriesThenEnd(a) ==
    /\ a \in {EntriesPart(a) \o z :
                z \in {<<>>, <<"zero">>, <<"zero", "zero">>, <<"end">>}}
    /\ "cut" \notin Range(a)

\* the sequences of entries the archives of the model are made of
EntrySeqs ==
    {EntriesPart(a) : a \in {b \in Archives : EntriesThenEnd(b)}}

\* what one scan alone yields and leaves in the index when the file is the
\* entries and nothing after them
EntriesAlone ==
    [e \in EntrySeqs |->
        ToEnd(ArchiveBytes(e),
              [frame |-> NewFrame, index |-> <<>>, out |-> None])]

(***************************************************************************)
(* C12.  For every sequence E of whole entries, the scan of the file that  *)
(* is E and nothing more, of the file that is E and one zero block, and of *)
(* the file that is E and two zero blocks yield the same names in the same *)
(* order and leave the same index: each yields and leaves what the scan of *)
(* E alone does, and returns (the index: as long as no other scan of the   *)
(* TarParser has begun).                                                   *)
(***************************************************************************)
C12_SameEnd ==
    (EntriesThenEnd(archive) /\ gen.pc = "done")
    => (/\ gen.end = Raise("StopIteration")
        /\ gen.end = EntriesAlone[EntriesPart(archive)].frame.end
        /\ gen.out = EntriesAlone[EntriesPart(archive)].frame.out
        /\ gen2.pc = "none"
           => _file_to_position = EntriesAlone[EntriesPart(archive)].index)

C12_Witness ==
    /\ archive = <<"dir", "file", "zero">>
    /\ Returned
    /\ gen2.pc = "none"
    /\ gen.out = <<NameData, NameA>>
    /\ DOMAIN _file_to_position = {NameData, NameA}

\* the directories of a file system
Dirs(fs) == {p \in DOMAIN fs : fs[p].kind = "dir"}

\* the paths of the entries of an archive whose type flag is f
PathsOf(a, f) ==
    {Path(Listed[a][n].name) :
        n \in {m \in 1..Len(Listed[a]) : Items[Listed[a][m].kind].flag = f}}

\* the entries of the archive are directories and symbolic links
DirsAndLinks(a) == \A j \in 1..Len(a) : a[j] \in {"dir", "sym", "end"}

(***************************************************************************)
(* C13.  extract makes the directory of a Directory entry when the path    *)
(* does not exist and leaves it alone, without an error, when it exists:   *)
(* an extract that came to its end leaves as directories those that were   *)
(* there and the paths of the Directory entries, so that a second extract  *)
(* leaves the directories of the first.  An entry that is neither a        *)
(* Directory nor a Regular file (a symbolic link) is skipped: no error     *)
(* comes of it and nothing is created at its path; an archive of such      *)
(* entries alone leaves the destination as it was.                         *)
(***************************************************************************)
C13_DirsAndSkips ==
    res.op = "extract"
    => (/\ res.out # Raise("FileExistsError")
        /\ Dirs(res.before) \subseteq Dirs(dest)
        /\ (Aligned(archive) /\ res.out = None)
           => Dirs(dest) = Dirs(res.before) \cup PathsOf(archive, 53)
        /\ Path(NameLnk) \notin DOMAIN res.before
           => Path(NameLnk) \notin DOMAIN dest
        /\ DirsAndLinks(archive)
           => (/\ res.out = None
               /\ DOMAIN dest = DOMAIN res.before \cup PathsOf(archive, 53)
               /\ \A p \in DOMAIN res.before : dest[p] = res.before[p]))

C13_Witness ==
    /\ res.op = "extract"
    /\ archive = <<"dir", "sym", "end">>
    /\ Path(NameData) \in Dirs(res.before)
    /\ res.out = None
    /\ dest = res.before

\* how many times x is in the sequence q
Count(q, x) == Cardinality({n \in 1..Len(q) : q[n] = x})

\* the offset of the header of the last entry of the archive a that has
\* the name
LastAt(a, name) ==
    Listed[a][-Least({-n : n \in {m \in 1..Len(Listed[a]) :
                                      Listed[a][m].name = name}})].at

(***************************************************************************)
(* C14.  After a scan of an archive of whole entries has returned (and no  *)
(* other scan of the TarParser has begun), the keys of the index are the   *)
(* names of the entries, and each name, also one that two or more entries  *)
(* have, is mapped to the offset of the header of the last entry that has  *)
(* it; the scan has yielded every name as many times as there are          *)
(* entries that have it.                                                   *)
(***************************************************************************)
C14_LastWins ==
    (Aligned(archive) /\ Returned /\ gen2.pc = "none")
    => (/\ DOMAIN _file_to_position = Range(NamesOf(Listed[archive]))
        /\ \A name \in DOMAIN _file_to_position :
               /\ _file_to_position[name] = LastAt(archive, name)
               /\ Count(gen.out, name)
                  = Count(NamesOf(Listed[archive]), name))

C14_Witness ==
    /\ archive = <<"file", "file2", "end">>
    /\ Returned
    /\ gen2.pc = "none"
    /\ gen.out = <<NameA, NameA>>
    /\ DOMAIN _file_to_position = {NameA}
    /\ _file_to_position[NameA] = 2 * _BLOCK_SIZE

(***************************************************************************)
(* C15.  In every state, whatever was scanned before, every name the index *)
(* holds is mapped to an offset that is not negative, is a multiple of the *)
(* block size, lies with its whole block in the file, and is the offset of *)
(* the header block of an entry of the archive that has this name (not of  *)
(* a long-name block, its payload, a data block or a zero block).  The     *)
(* code does not do this.                                                  *)
(***************************************************************************)
C15_IndexedHeaders ==
    \A name \in DOMAIN _file_to_position :
        /\ _file_to_position[name] >= 0
        /\ _file_to_position[name] % _BLOCK_SIZE = 0
        /\ _file_to_position[name] + _BLOCK_SIZE <= Len(File[archive])
        /\ \E n \in 1..Len(Listed[archive]) :
               /\ Listed[archive][n].at = _file_to_position[name]
               /\ Listed[archive][n].name = name

\* the block of the archive file that begins at the offset at
BlockAt(at) == read(File[archive], at, _BLOCK_SIZE)

\* the block is a long-name block
IsLongName(block) == Slice(block, 156, 157) = <<76>>

\* the text of the name field of a header block
NameField(block) == strip(Slice(block, 0, 100), {0})

(***************************************************************************)
(* C16.  In a scan of an archive of whole entries, no name is yielded at a *)
(* long-name block.  A name yielded from a pending long name is the text   *)
(* of the payload block of the long-name block that lies directly before   *)
(* the header it is yielded at, and is yielded for that header alone: as   *)
(* many times as the archive has long-name blocks that carry it.  A name   *)
(* yielded otherwise is the name field of its own header, and no long name *)
(* is pending then, nor when the scan has come to its end.  The pending    *)
(* long name is one value (None or one name).                              *)
(***************************************************************************)
C16_PendingOnce ==
    /\ gen.lln = None \/ IsOk(gen.lln)
    /\ (Aligned(archive) /\ gen.pc \in {"yield", "yield_long"})
       => ~IsLongName(BlockAt(gen.blk))
    /\ (Aligned(archive) /\ gen.pc = "yield_long")
       => (/\ gen.lln = Ok(gen.out[Len(gen.out)])
           /\ gen.blk >= 2 * _BLOCK_SIZE
           /\ IsLongName(BlockAt(gen.blk - 2 * _BLOCK_SIZE))
           /\ strip(BlockAt(gen.blk - _BLOCK_SIZE), {0})
              = gen.out[Len(gen.out)])
    /\ (Aligned(archive) /\ gen.pc = "yield")
       => (/\ ~Truthy(gen.lln)
           /\ gen.out[Len(gen.out)] = NameField(BlockAt(gen.blk)))
    /\ (Aligned(archive) /\ gen.pc = "done") => ~Truthy(gen.lln)
    /\ Aligned(archive)
       => Count(gen.out, NameLong)
          <= Cardinality({j \in 1..Len(archive) : archive[j] = "long"})

C16_Witness ==
    /\ archive = <<"long", "file", "end">>
    /\ gen.pc = "yield"
    /\ gen.out = <<NameLong, NameA>>
    /\ gen.lln = None

(***************************************************************************)
(* C17, as the spec has it.  A scan stops after ScanCap blocks of the      *)
(* archive: no name is yielded at, and none is indexed under, the offset   *)
(* of a block beyond the first ScanCap blocks of the file, and the scan    *)
(* reads no further.                                                       *)
(***************************************************************************)
C17_CapInBlocks ==
    /\ gen.pc \in {"yield", "yield_long"}
       => gen.blk < ScanCap * _BLOCK_SIZE
    /\ \A name \in DOMAIN _file_to_position :
           _file_to_position[name] < ScanCap * _BLOCK_SIZE
    /\ gen.pos <= ScanCap * _BLOCK_SIZE

(***************************************************************************)
(* C17, amended.  A scan stops after ScanCap iterations of its loop, each  *)
(* of which reads one block at its top (a header, a zero block, or a       *)
(* long-name block, whose payload block it reads too); the data blocks it  *)
(* seeks over do not count.  So a scan always comes to its end, it yields  *)
(* ScanCap names at most, every name in an iteration of its own below      *)
(* ScanCap, and it returns when the iterations are used up: of ScanCap     *)
(* directory entries and a file after them the file is never yielded nor   *)
(* indexed, while a file after ScanCap data blocks of one entry is.        *)
(***************************************************************************)
C17_CapInIterations ==
    /\ gen.i <= ScanCap
    /\ Len(gen.out) <= ScanCap
    /\ gen.pc \in {"yield", "yield_long"}
       => (gen.i < ScanCap /\ Len(gen.out) <= gen.i + 1)
    /\ (gen.pc = "done" /\ gen.i = ScanCap) => Returned
    /\ archive = <<"many", "file", "end">>
       => (/\ NameA \notin Range(gen.out)
           /\ NameA \notin DOMAIN _file_to_position
           /\ gen.pc = "done" => (Returned /\ Len(gen.out) = ScanCap))
    /\ (archive = <<"big", "file", "end">> /\ gen.pc = "done")
       => (/\ Returned
           /\ gen.out = <<NameBig, NameA>>
           /\ _file_to_position[NameA] = (ScanCap + 1) * _BLOCK_SIZE)

C17_Witness ==
    /\ archive = <<"many", "file", "end">>
    /\ Returned
    /\ gen.i = ScanCap
    /\ Len(gen.out) = ScanCap
    /\ NameA \notin DOMAIN _file_to_position

\* q is the beginning of the sequence r
IsPrefix(q, r) == Len(q) <= Len(r) /\ q = SubSeq(r, 1, Len(q))

(***************************************************************************)
(* C18.  When two generators of tar.files() on one TarParser are advanced  *)
(* in any order of their steps, each yields, name by name, what one scan   *)
(* alone yields, and ends as that scan ends; when both have come to their  *)
(* end the index is the index one scan alone leaves.                       *)
(***************************************************************************)
C18_Interleaved ==
    /\ IsPrefix(gen.out, ScanAlone[archive].frame.out)
    /\ IsPrefix(gen2.out, ScanAlone[archive].frame.out)
    /\ gen.pc = "done"
       => (/\ gen.out = ScanAlone[archive].frame.out
           /\ gen.end = ScanAlone[archive].frame.end)
    /\ gen2.pc = "done"
       => (/\ gen2.out = ScanAlone[archive].frame.out
           /\ gen2.end = ScanAlone[archive].frame.end)
    /\ (gen.pc = "done" /\ gen2.pc = "done")
       => _file_to_position = ScanAlone[archive].index

C18_Witness ==
    /\ archive = <<"file", "file2", "end">>
    /\ gen.pc = "yield"
    /\ gen.out = <<NameA, NameA>>
    /\ gen2.pc = "yield"
    /\ gen2.out = <<NameA>>
    /\ _file_to_position[NameA] = 0

\* one generator of tar.files() was made on the TarParser, and no other
OneScan == gen.pc # "none" /\ gen2.pc = "none"

\* file_stat of the name, when the header of the name is the block at the
\* offset at
StatAt(at, name) ==
    Then(FileData(archive, at, name),
         LAMBDA data : Ok(Info(data, _file_to_position)))

(***************************************************************************)
(* C19.  On a TarParser with one generator of tar.files(), after k names   *)
(* were taken the keys of the index are the set of these k names (none     *)
(* before the first).  A name is in the index when it is yielded: in an    *)
(* archive of whole entries the name just yielded is mapped to the offset  *)
(* of the header it was yielded at, and file_stat of it is made of that    *)
(* header; file_stat and get_file_bytes of a name not yet yielded fail as  *)
(* the lookup of an unknown name does.                                     *)
(***************************************************************************)
C19_LazyIndex ==
    OneScan
    => (/\ DOMAIN _file_to_position = Range(gen.out)
        /\ (Aligned(archive) /\ gen.pc \in {"yield", "yield_long"})
           => (/\ _file_to_position[gen.out[Len(gen.out)]] = gen.blk
               /\ (res.op = "file_stat" /\ res.arg = gen.out[Len(gen.out)])
                  => res.out = StatAt(gen.blk, res.arg))
        /\ (res.op = "file_stat" /\ res.arg \notin Range(gen.out))
           => res.out = UnknownEntry
        /\ (res.op = "file_stat" /\ res.arg \in Range(gen.out))
           => res.out = StatAt(_file_to_position[res.arg], res.arg)
        /\ (/\ res.op = "get_file_bytes"
            /\ res.arg.file_name.val \notin Range(gen.out))
           => res.out = UnknownEntry)

C19_Witness ==
    /\ OneScan
    /\ archive = <<"dir", "file", "end">>
    /\ gen.pc = "yield"
    /\ gen.out = <<NameData>>
    /\ DOMAIN _file_to_position = {NameData}
    /\ res.op = "file_stat"
    /\ res.arg = NameA
    /\ res.out = UnknownEntry

\* the paths the regular-file entries of an archive are written to
FilePaths(a) == PathsOf(a, 48)

\* the data of the last regular-file entry of the archive written to p
LastData(a, p) == Items[FilesAt(a, p)[Len(FilesAt(a, p))].kind].data

(***************************************************************************)
(* C20.  extract scans the archive itself and takes the header and the     *)
(* data of every entry at the offset of that entry, whatever the index     *)
(* held before: after an extract of an archive of whole entries that came  *)
(* to its end, every path of a Regular-file entry holds the data of the    *)
(* last entry of that path in the archive, also when several entries have  *)
(* the path and the index was filled by a scan before, and the index maps  *)
(* every name to the header of its last entry.  What extract leaves at     *)
(* such a path is never anything but what was there or the data of one of  *)
(* these entries.                                                          *)
(***************************************************************************)
C20_LastPayload ==
    (res.op = "extract" /\ Aligned(archive))
    => (/\ res.out = None
           => (/\ \A p \in FilePaths(archive) :
                      /\ p \in DOMAIN dest
                      /\ dest[p] = RegFile(LastData(archive, p))
               /\ \A name \in Range(NamesOf(Listed[archive])) :
                      _file_to_position[name] = LastAt(archive, name))
        /\ \A p \in FilePaths(archive) \cap DOMAIN dest :
               \/ p \in DOMAIN res.before /\ dest[p] = res.before[p]
               \/ \E n \in 1..Len(FilesAt(archive, p)) :
                      dest[p] = RegFile(Items[FilesAt(archive, p)[n].kind].data))

C20_Witness ==
    /\ res.op = "extract"
    /\ archive = <<"file2", "file", "end">>
    /\ Returned
    /\ NameA \in DOMAIN res.before
    /\ res.before[NameA] = RegFile(OldData)
    /\ res.out = None
    /\ dest[NameA] = RegFile(Hello)
    /\ _file_to_position[NameA] = 3 * _BLOCK_SIZE

====
